---- MODULE Spec2Model ----
(***************************************************************************)
(* Inventory stock-movement subsystem: the snapshot table (Inventories),   *)
(* the ledger table (InventoryLogs), the product table, and the HTTP       *)
(* requests that read and write them.  Every request runs in one ambient   *)
(* database transaction that is opened by its first repository call and    *)
(* ended when the response is sent.  The store is PostgreSQL at its        *)
(* default isolation level (read committed): a read sees committed rows,   *)
(* an UPDATE takes the row's lock until the transaction ends, and writes   *)
(* become visible to other requests at commit.                             *)
(***************************************************************************)
EXTENDS Integers, Sequences, FiniteSets, TLC

\* ---------------------------------------------------------------- bounds
MaxMoves == 2

ProductIds == {1, 2}
Slots == {"a", "b"}
Thresholds == {-1, 0}
NewThresholds == {0, 1}
Channels == {1, 2}
SystemAdmin == 0
Quantities == {1, 2}

\* ------------------------------------------------------- entities, values
InventoryLogChangeTypeIN == "IN"
InventoryLogChangeTypeOUT == "OUT"
InventoryLogChangeTypeADJUST == "ADJUST"

INVALID_REQUEST == "INVALID_REQUEST"
DATABASE == "DATABASE"

NoError == [code |-> "OK", msg |-> "", available |-> 0, requested |-> 0]
XError(code, msg) == [code |-> code, msg |-> msg, available |-> 0, requested |-> 0]
\* Mutant: the stock the movement would leave is reported as available.
InsufficientStockAfter(previousStock, quantity) ==
    [code |-> INVALID_REQUEST, msg |-> "Insufficient stock",
     available |-> previousStock - quantity, requested |-> quantity]

InsufficientStock(previousStock, quantity) ==
    [code |-> INVALID_REQUEST, msg |-> "Insufficient stock",
     available |-> previousStock, requested |-> quantity]

NoInventory ==
    [exists |-> FALSE, quantity |-> 0, lowStockThreshold |-> 0,
     channelId |-> 0, isActive |-> FALSE]

\* The snapshot row SaveProduct builds for a new product; the channel is the
\* creating request's, set on the row when it is inserted.
\* Mutant: the request's threshold is not copied.
NewInventoryDefaultThreshold(channelId, lowStockThreshold) ==
    [exists |-> TRUE, quantity |-> 0, lowStockThreshold |-> 0,
     channelId |-> channelId, isActive |-> TRUE]

NewInventory(channelId, lowStockThreshold) ==
    [exists |-> TRUE, quantity |-> 0, lowStockThreshold |-> lowStockThreshold,
     channelId |-> channelId, isActive |-> TRUE]

\* One item of the low-stock list.
LowStockItem(productId, inv) ==
    [productId |-> productId, currentStock |-> inv.quantity,
     lowStockThreshold |-> inv.lowStockThreshold]

\* The parameters of a read: path and query-string values, empty when absent.
Query(id, productId, changeType, startDate, endDate) ==
    [id |-> id, productId |-> productId, changeType |-> changeType,
     startDate |-> startDate, endDate |-> endDate]

NoQuery == Query(0, 0, "", "", "")

\* What a read sent: the endpoint, the caller's channel, the parameters, and
\* the snapshot items or the ledger rows of the body.
NoListing ==
    [kind |-> "", channelId |-> 0, query |-> NoQuery, items |-> {},
     rows |-> <<>>, sent |-> FALSE]

StockMovementRequest(p, ct, q, reason, notes, ov) ==
    [productId |-> p, changeType |-> ct, quantity |-> q, reason |-> reason,
     notes |-> notes, adminOverride |-> ov]

NoRequest == StockMovementRequest(0, "", 0, "", "", FALSE)

IdleCall ==
    [pc |-> "idle", req |-> NoRequest, txn |-> FALSE,
     previousStock |-> 0, newStock |-> 0, netChange |-> 0,
     logged |-> "no", updated |-> "no", err |-> NoError,
     channelId |-> 0, loggedAt |-> 0]

\* What the handler sends back (StockMovementResponse or the error), kept with
\* the request it answers.
StockMovementResponse(c) ==
    [req |-> c.req, err |-> c.err, txn |-> c.txn,
     previousStock |-> c.previousStock,
     newStock |-> IF c.err = NoError THEN c.newStock ELSE 0,
     changeAmount |-> IF c.err = NoError THEN c.netChange ELSE 0]

NoResponse == [StockMovementResponse(IdleCall) EXCEPT !.err = XError("", "none")]

VARIABLES
    products,        \* product id -> "none" | "active" | "deleted" (soft delete)
    productSeq,      \* last product id handed out
    inventories,     \* product id -> committed snapshot row
    inventoryLogs,   \* committed ledger rows, in commit order
    call,            \* slot -> the stock-movement request it is serving
    resp,            \* the last response sent for a write, with its request
    moves,           \* number of stock-movement requests received so far
    accepted,        \* product id -> number of movements answered with success
    qtyWrites,       \* product id -> number of committed quantity updates
    listed           \* what the latest step sent, if it was a read

vars == <<products, productSeq, inventories, inventoryLogs, call, resp, moves,
          accepted, qtyWrites, listed>>

db == <<products, productSeq, inventories, inventoryLogs, qtyWrites>>

Init ==
    /\ products = [p \in ProductIds |-> "none"]
    /\ productSeq = 0
    /\ inventories = [p \in ProductIds |-> NoInventory]
    /\ inventoryLogs = <<>>
    /\ call = [r \in Slots |-> IdleCall]
    /\ resp = NoResponse
    /\ moves = 0
    /\ accepted = [p \in ProductIds |-> 0]
    /\ qtyWrites = [p \in ProductIds |-> 0]
    /\ listed = NoListing


\* --------------------------------------------------- transaction plumbing
\* The handle a repository call works on.  The context carries the request's
\* transaction once one was created; "tx" is that transaction, "db" would be
\* the bare connection, whose statements commit one by one.
\* Mutant: the bare connection is handed out, so every statement commits alone.
WithTransactionBareDB(txn) == [handle |-> "db", txn |-> FALSE]

\* Mutant: when the context holds no transaction none is begun, and the
\* statement runs on the bare connection.
WithTransactionNoneBegun(txn) ==
    IF txn THEN [handle |-> "tx", txn |-> TRUE]
           ELSE [handle |-> "db", txn |-> FALSE]

WithTransaction(txn) ==
    IF txn THEN [handle |-> "tx", txn |-> TRUE]      \* the one stored in the context
           ELSE [handle |-> "tx", txn |-> TRUE]      \* createTransaction: Begin, store

WithDB(txn) == WithTransaction(txn)

\* The response ends the request's transaction: commit on success, roll back
\* on failure; a transaction with a failed statement cannot commit anyway.
Commits(err) == err = NoError

\* ------------------------------------------------------------ pure parts
\* gin's binding:"required" rejects the zero value of the field's type.
\* Mutant: the reason carries no binding tag.
BindWithoutReason(req) ==
    /\ req.productId # 0
    /\ req.changeType # ""
    /\ req.quantity # 0

Bind(req) ==
    /\ req.productId # 0
    /\ req.changeType # ""
    /\ req.quantity # 0
    /\ req.reason # ""

\* if request.Quantity <= 0 { return ... }
\* Mutant: the quantity is not checked.
QuantityValidAny(quantity) == TRUE

QuantityValid(quantity) == ~(quantity <= 0)

\* Mutant: the change type is not checked.
ChangeTypeValidAny(changeType) == TRUE

ChangeTypeValid(changeType) ==
    ~(/\ changeType # InventoryLogChangeTypeIN
      /\ changeType # InventoryLogChangeTypeOUT
      /\ changeType # InventoryLogChangeTypeADJUST)

\* First(&inventory) with Where product_id = ?: no tenant or active scope.
\* Mutant: Find instead of First, which yields a zero row and no error.
GetByProductIdFind(productId) ==
    IF productId \in ProductIds /\ inventories[productId].exists
      THEN inventories[productId]
      ELSE [NoInventory EXCEPT !.exists = TRUE]

GetByProductId(productId) ==
    IF productId \in ProductIds THEN inventories[productId] ELSE NoInventory

\* Mutant: OUT adds instead of removing.
NetChangeUnsigned(changeType, quantity) ==
    IF changeType \in {InventoryLogChangeTypeIN, InventoryLogChangeTypeOUT,
                       InventoryLogChangeTypeADJUST}
      THEN quantity ELSE 0

NetChange(changeType, quantity) ==
    CASE changeType = InventoryLogChangeTypeIN -> quantity
      [] changeType = InventoryLogChangeTypeOUT -> -quantity
      [] changeType = InventoryLogChangeTypeADJUST ->
            IF quantity > 0 THEN quantity ELSE -quantity
      [] OTHER -> 0

\* Mutant: the override flag is read the wrong way round.
InsufficientStockGuardInverted(changeType, newStock, adminOverride) ==
    changeType = InventoryLogChangeTypeOUT /\ newStock < 0 /\ adminOverride

\* Mutant: the override flag is not read.
InsufficientStockGuardNoOverride(changeType, newStock, adminOverride) ==
    changeType = InventoryLogChangeTypeOUT /\ newStock < 0

\* Mutant: the guard lets the stock go one below zero.
InsufficientStockGuardOffByOne(changeType, newStock, adminOverride) ==
    changeType = InventoryLogChangeTypeOUT /\ newStock < -1 /\ ~adminOverride

InsufficientStockGuard(changeType, newStock, adminOverride) ==
    changeType = InventoryLogChangeTypeOUT /\ newStock < 0 /\ ~adminOverride

\* Mutant: an OUT row counts as positive.
CalculateNetChangeMagnitude(il) ==
    CASE il.changeType = InventoryLogChangeTypeIN -> il.quantity
      [] il.changeType = InventoryLogChangeTypeOUT -> il.quantity
      [] il.changeType = InventoryLogChangeTypeADJUST -> il.quantity
      [] OTHER -> 0

CalculateNetChange(il) ==
    CASE il.changeType = InventoryLogChangeTypeIN -> il.quantity
      [] il.changeType = InventoryLogChangeTypeOUT -> -il.quantity
      [] il.changeType = InventoryLogChangeTypeADJUST -> il.quantity
      [] OTHER -> 0

\* Mutant: the notes are not copied into the ledger row.
LogEntryWithoutNotes(c) ==
    [productId |-> c.req.productId, changeType |-> c.req.changeType,
     quantity |-> c.req.quantity, reason |-> c.req.reason, notes |-> "",
     loggedAt |-> c.loggedAt, channelId |-> c.channelId, isActive |-> TRUE]

\* The ledger row: the request's fields, the clock reading taken when the row
\* is built, the active flag, and the channel of the request that inserts it.
LogEntry(c) ==
    [productId |-> c.req.productId, changeType |-> c.req.changeType,
     quantity |-> c.req.quantity, reason |-> c.req.reason, notes |-> c.req.notes,
     loggedAt |-> c.loggedAt, channelId |-> c.channelId, isActive |-> TRUE]

\* The handler's binding and the service up to the first write: the call
\* record as it stands when the service either returned an error or is about
\* to create the ledger row.
\* Mutant: the change type is checked before the quantity.
ValidateTypeFirst(req) ==
    IF ~ChangeTypeValid(req.changeType)
      THEN XError(INVALID_REQUEST, "Invalid change type")
    ELSE IF ~QuantityValid(req.quantity)
      THEN XError(INVALID_REQUEST, "Quantity must be greater than 0")
    ELSE NoError

Validate(req) ==
    IF ~QuantityValid(req.quantity)
      THEN XError(INVALID_REQUEST, "Quantity must be greater than 0")
    ELSE IF ~ChangeTypeValid(req.changeType)
      THEN XError(INVALID_REQUEST, "Invalid change type")
    ELSE NoError

Received(req) == [IdleCall EXCEPT !.req = req]

Computed(req) ==
    LET c0 == Received(req) IN
    IF ~Bind(req)
      THEN [c0 EXCEPT !.pc = "failed", !.err = XError(INVALID_REQUEST, "MALFORMED_REQUEST")]
    ELSE IF Validate(req) # NoError
      THEN [c0 EXCEPT !.pc = "failed", !.err = Validate(req)]
    ELSE
      LET h == WithDB(c0.txn)
          inventory == GetByProductId(req.productId)
          previousStock == inventory.quantity
          netChange == NetChange(req.changeType, req.quantity)
          newStock == previousStock + netChange
          c1 == [c0 EXCEPT !.txn = h.txn]
      IN
      IF ~inventory.exists
        THEN [c1 EXCEPT !.pc = "failed",
                        !.err = XError(INVALID_REQUEST, "Product inventory not found")]
      ELSE IF InsufficientStockGuard(req.changeType, newStock, req.adminOverride)
        THEN [c1 EXCEPT !.pc = "failed", !.previousStock = previousStock,
                        !.err = InsufficientStock(previousStock, req.quantity)]
      ELSE [c1 EXCEPT !.pc = "computed", !.previousStock = previousStock,
                      !.newStock = newStock, !.netChange = netChange]

\* gorm Create on the ledger table: INSERT of one new row.
\* Mutant: the insert overwrites the newest row instead of adding one.
InsertOverLast(logs, entry) ==
    IF logs = <<>> THEN <<entry>> ELSE [logs EXCEPT ![Len(logs)] = entry]

Insert(logs, entry) == Append(logs, entry)

\* UPDATE ... SET quantity = ? WHERE product_id = ?: an absolute write of the
\* one product's row.
\* Mutant: the WHERE clause is missing and every row is updated.
SetQuantityAllRows(productId, quantity) ==
    [p \in ProductIds |->
        IF inventories[p].exists
          THEN [inventories[p] EXCEPT !.quantity = quantity]
          ELSE inventories[p]]

SetQuantity(productId, quantity) ==
    IF productId \in ProductIds /\ inventories[productId].exists
      THEN [inventories EXCEPT ![productId].quantity = quantity]
      ELSE inventories

\* -------------------------------------------------------------- actions
\* The response is sent: the request's transaction ends.  c is the call as the
\* service left it; its pending writes become visible together, or not at all.
FormatAndSend(r, c) ==
    LET p == c.req.productId
        commit == Commits(c.err)
    IN
    /\ inventoryLogs' = IF c.logged = "committed" \/ (commit /\ c.logged = "pending")
                          THEN Insert(inventoryLogs, LogEntry(c)) ELSE inventoryLogs
    /\ inventories' = IF c.updated = "committed" \/ (commit /\ c.updated = "pending")
                        THEN SetQuantity(p, c.newStock)
                        ELSE inventories
    /\ qtyWrites' = IF c.updated = "committed" \/ (commit /\ c.updated = "pending")
                      THEN [qtyWrites EXCEPT ![p] = @ + 1] ELSE qtyWrites
    /\ accepted' = IF c.err = NoError /\ p \in ProductIds
                     THEN [accepted EXCEPT ![p] = @ + 1] ELSE accepted
    /\ call' = [call EXCEPT ![r] = IdleCall]
    /\ resp' = StockMovementResponse(c)
    /\ UNCHANGED <<products, productSeq>>
    /\ listed' = NoListing

\* util.GetLocalTime(): the clock readings a request can get now, none earlier
\* than a reading already taken.
GetLocalTime(times) ==
    {t \in times :
        /\ \A i \in 1..Len(inventoryLogs) : inventoryLogs[i].loggedAt <= t
        /\ \A r \in Slots : call[r].pc = "idle" \/ call[r].loggedAt <= t}

\* POST /inventory/movement arrives from a caller of the given channel, with
\* the clock at loggedAt: bind, validate, read the snapshot, compute.
\* A rejected request is answered at once; an accepted one goes on to write.
RecordStockMovementBy(channelId, loggedAt, r, req) ==
    /\ call[r].pc = "idle"
    /\ moves < MaxMoves
    /\ moves' = moves + 1
    /\ LET c == [Computed(req) EXCEPT !.channelId = channelId,
                                      !.loggedAt = loggedAt] IN
       IF c.pc = "failed"
         THEN FormatAndSend(r, c)
         ELSE /\ call' = [call EXCEPT ![r] = c]
              /\ UNCHANGED <<db, accepted, resp>>
              /\ listed' = NoListing

\* The same, for the callers of channel 1 with the clock standing still.
RecordStockMovement(r, req) == RecordStockMovementBy(1, 0, r, req)

\* inventoryLogRepo.Create: the ledger row is inserted, or the insert fails.
CreateInventoryLog(c, fails) ==
    IF fails
      THEN [c EXCEPT !.pc = "failed",
                     !.err = XError(DATABASE, "Failed to create inventory log")]
      ELSE LET h == WithDB(c.txn) IN
           [c EXCEPT !.txn = h.txn,
                     !.logged = IF h.handle = "tx" THEN "pending" ELSE "committed"]

\* inventoryRepo.UpdateQuantity: the snapshot row is set to the computed
\* quantity, or the update fails.
UpdateQuantity(c, fails) ==
    IF fails
      THEN [c EXCEPT !.pc = "failed",
                     !.err = XError(DATABASE, "Failed to update inventory quantity")]
      ELSE LET h == WithDB(c.txn) IN
           [c EXCEPT !.txn = h.txn,
                     !.updated = IF h.handle = "tx" THEN "pending" ELSE "committed"]

\* The rest of the service and the response, from the ledger insert on.  The
\* insert and the update are seen by no other request before the transaction
\* ends, and the update's row lock is held until then, so the writes and the
\* end of the transaction are one step for every observer.
CompleteStockMovement(r, failure) ==
    /\ call[r].pc = "computed"
    /\ LET c1 == CreateInventoryLog(call[r], failure = "log")
           c2 == IF c1.pc = "failed" THEN c1 ELSE UpdateQuantity(c1, failure = "quantity")
       IN FormatAndSend(r, c2)
    /\ UNCHANGED moves

\* inventoryRepository.Create: INSERT of one snapshot row.  product_id is
\* UNIQUE, so a second row for a product is refused by the store.
Create(rows, productId, row) ==
    IF rows[productId].exists
      THEN [rows |-> rows, err |-> XError(DATABASE, "Unable to create inventory")]
      ELSE [rows |-> [rows EXCEPT ![productId] = row], err |-> NoError]

\* What SaveProduct returns, given the results of its two inserts.
\* Mutant: the error of the snapshot insert is dropped.
SaveProductResultSwallowed(productErr, inventoryErr) == productErr

SaveProductResult(productErr, inventoryErr) ==
    IF productErr # NoError THEN productErr
    ELSE IF inventoryErr # NoError THEN inventoryErr
    ELSE NoError

\* POST /product: the product row and its snapshot row, in one transaction
\* that ends with the response.
SaveProduct(channelId, lowStockThreshold, failure) ==
    /\ productSeq + 1 \in ProductIds
    /\ productSeq' = productSeq + 1
    /\ LET id == productSeq + 1
           h == WithDB(FALSE)
           productErr == IF failure = "product"
                           THEN XError(DATABASE, "Unable to save product") ELSE NoError
           created == IF failure = "inventory"
                        THEN [rows |-> inventories,
                              err |-> XError(DATABASE, "Unable to create inventory")]
                        ELSE Create(inventories, id,
                                    NewInventory(channelId, lowStockThreshold))
           err == SaveProductResult(productErr, created.err)
           kept == Commits(err) \/ h.handle = "db"
       IN
       /\ products' = IF productErr = NoError /\ kept
                        THEN [products EXCEPT ![id] = "active"] ELSE products
       /\ inventories' = IF productErr = NoError /\ kept
                           THEN created.rows ELSE inventories
    /\ UNCHANGED <<inventoryLogs, call, resp, moves, accepted, qtyWrites>>
    /\ listed' = NoListing

\* inventoryRepository.Create called for a product that already has a snapshot:
\* no service does so, this is the repository's answer should one do it.
CreateAgain(productId, channelId, lowStockThreshold) ==
    /\ inventories[productId].exists
    /\ LET created == Create(inventories, productId,
                             NewInventory(channelId, lowStockThreshold))
       IN /\ inventories' = IF Commits(created.err) THEN created.rows ELSE inventories
          /\ resp' = [NoResponse EXCEPT !.err = created.err,
                                        !.req.productId = productId]
    /\ UNCHANGED <<products, productSeq, inventoryLogs, call, moves, accepted,
                   qtyWrites>>
    /\ listed' = NoListing

\* UPDATE ... SET low_stock_threshold WHERE product_id = ?
\* Mutant: the whole row is saved from the request body, which has no quantity.
SetThresholdSavingRow(productId, threshold) ==
    IF productId \in ProductIds /\ inventories[productId].exists
      THEN [inventories EXCEPT ![productId].quantity = 0,
                               ![productId].lowStockThreshold = threshold]
      ELSE inventories

\* Mutant: the WHERE clause is missing and every row is updated.
SetThresholdAllRows(productId, threshold) ==
    [p \in ProductIds |->
        IF inventories[p].exists
          THEN [inventories[p] EXCEPT !.lowStockThreshold = threshold]
          ELSE inventories[p]]

\* Mutant: the UPDATE names the quantity column.
SetThresholdWrongColumn(productId, threshold) ==
    IF productId \in ProductIds /\ inventories[productId].exists
      THEN [inventories EXCEPT ![productId].quantity = threshold]
      ELSE inventories

SetThreshold(productId, threshold) ==
    IF productId \in ProductIds /\ inventories[productId].exists
      THEN [inventories EXCEPT ![productId].lowStockThreshold = threshold]
      ELSE inventories

\* PUT /inventory/:id/threshold (the snapshot of product p carries id p).
UpdateThreshold(id, threshold) ==
    /\ inventories' = SetThreshold(id, threshold)
    /\ UNCHANGED <<products, productSeq, inventoryLogs, call, resp, moves,
                   accepted, qtyWrites>>
    /\ listed' = NoListing


\* PUT /product/:id: the product row is updated, then the snapshot's threshold
\* is set from the same request body.
UpdateProduct(id, lowStockThreshold) ==
    /\ inventories' = SetThreshold(id, lowStockThreshold)
    /\ UNCHANGED <<products, productSeq, inventoryLogs, call, resp, moves,
                   accepted, qtyWrites>>
    /\ listed' = NoListing

\* DELETE /product/:id: the product row is soft-deleted; its snapshot stays.
DeleteProduct(id) ==
    /\ products[id] = "active"
    /\ products' = [products EXCEPT ![id] = "deleted"]
    /\ UNCHANGED <<productSeq, inventories, inventoryLogs, call, resp, moves,
                   accepted, qtyWrites>>
    /\ listed' = NoListing

\* scopes.Channel: rows of the caller's channel; the system admin's channel is
\* 0 and sees every channel's rows.
Channel(channelId, row) ==
    IF channelId = SystemAdmin THEN TRUE ELSE row.channelId = channelId

\* scopes.IsActive: rows whose is_active flag is set.
IsActive(row) == row.isActive

\* Where("quantity <= low_stock_threshold")
\* Mutant: rows strictly below their threshold only.
LowStockWhereBelow(row) == row.quantity < row.lowStockThreshold

LowStockWhere(row) == row.quantity <= row.lowStockThreshold

\* inventoryRepository.GetLowStockItems: the products whose snapshot row the
\* query selects.
FindLowStock(channelId) ==
    {p \in ProductIds :
        /\ inventories[p].exists
        /\ Channel(channelId, inventories[p])
        /\ IsActive(inventories[p])
        /\ LowStockWhere(inventories[p])}

\* GET /inventory/low-stock by a caller of the given channel.
GetLowStockItems(channelId) ==
    /\ listed' = [NoListing EXCEPT
                    !.kind = "low-stock", !.channelId = channelId, !.sent = TRUE,
                    !.items = {LowStockItem(p, inventories[p]) :
                                  p \in FindLowStock(channelId)}]
    /\ UNCHANGED <<products, productSeq, inventories, inventoryLogs, call, resp,
                   moves, accepted, qtyWrites>>

\* --------------------------------------------------------------- the reads
\* Everything a read leaves alone.
stored == <<products, productSeq, inventories, inventoryLogs, call, resp, moves,
            accepted, qtyWrites>>

\* responseMapper.Inventory: the snapshot as the API shows it.
\* Mutant: the threshold is not copied.
InventoryWithoutThreshold(productId, e) ==
    [productId |-> productId, quantity |-> e.quantity, lowStockThreshold |-> 0,
     isActive |-> e.isActive, isLowStock |-> e.quantity <= e.lowStockThreshold]

Inventory(productId, e) ==
    [productId |-> productId, quantity |-> e.quantity,
     lowStockThreshold |-> e.lowStockThreshold, isActive |-> e.isActive,
     isLowStock |-> e.quantity <= e.lowStockThreshold]

\* GET /inventory/product/:productId by a caller of the given channel: the
\* row of GetByProductId, mapped, or the repository's error and no body.
InventoryGetByProductId(channelId, productId) ==
    /\ LET inventory == GetByProductId(productId) IN
       listed' = [NoListing EXCEPT
                    !.kind = "inventory-by-product", !.channelId = channelId,
                    !.query = Query(0, productId, "", "", ""), !.sent = TRUE,
                    !.items = IF inventory.exists
                                THEN {Inventory(productId, inventory)} ELSE {}]
    /\ UNCHANGED stored

\* responseMapper.InventoryLog: the ledger row with the given id as the API
\* shows it, with its net change.
InventoryLog(id, e) ==
    [id |-> id, productId |-> e.productId, changeType |-> e.changeType,
     quantity |-> e.quantity, reason |-> e.reason, notes |-> e.notes,
     loggedAt |-> e.loggedAt, isActive |-> e.isActive,
     netChange |-> CalculateNetChange(e)]

\* The ids (positions in insert order) of the stored ledger rows.
LogIds == 1..Len(inventoryLogs)

\* Scopes(scopes.Channel(), scopes.IsActive()): of the rows with the given ids,
\* those a scoped query selects for a caller of the given channel.
SelectLogs(channelId, ids) ==
    {i \in ids : Channel(channelId, inventoryLogs[i]) /\ IsActive(inventoryLogs[i])}

Orderings(ids) ==
    {s \in [1..Cardinality(ids) -> ids] :
        \A i, j \in 1..Cardinality(ids) : i # j => s[i] # s[j]}

\* Order("logged_at DESC"): every order of the selected rows the store may
\* return them in; rows with equal logged_at come in any order.
\* Mutant: ascending instead of descending.
OrderLoggedAtAsc(ids) ==
    {s \in Orderings(ids) :
        \A i, j \in 1..Cardinality(ids) :
            i < j => inventoryLogs[s[i]].loggedAt <= inventoryLogs[s[j]].loggedAt}

OrderLoggedAtDesc(ids) ==
    {s \in Orderings(ids) :
        \A i, j \in 1..Cardinality(ids) :
            i < j => inventoryLogs[s[i]].loggedAt >= inventoryLogs[s[j]].loggedAt}

\* db.Paginate: the first page of the given size.
Paginate(s, pageSize) ==
    SubSeq(s, 1, IF Len(s) < pageSize THEN Len(s) ELSE pageSize)

\* The store's reading of a date string compared with a timestamp column: the
\* first instant of that day.  The clock readings are 0 and 1 on the first
\* day and 2 on the second.
ParseDate(date) ==
    CASE date = "2024-01-01" -> 0
      [] date = "2024-01-02" -> 2

\* Where("product_id = ?")
WhereProductId(productId, e) == e.productId = productId

\* Where("change_type = ?")
WhereChangeType(changeType, e) == e.changeType = changeType

\* if startDate != "" { Where("logged_at >= ?") }
\* if endDate != "" { Where("logged_at <= ?") }
\* Mutant: the end bound is exclusive.
WhereDateRangeExclusiveEnd(startDate, endDate, e) ==
    /\ startDate # "" => e.loggedAt >= ParseDate(startDate)
    /\ endDate # "" => e.loggedAt < ParseDate(endDate)

WhereDateRange(startDate, endDate, e) ==
    /\ startDate # "" => e.loggedAt >= ParseDate(startDate)
    /\ endDate # "" => e.loggedAt <= ParseDate(endDate)

\* A ledger list is sent: the rows with the given ids in the given order.
SendLogs(kind, channelId, query, s) ==
    /\ listed' = [NoListing EXCEPT
                    !.kind = kind, !.channelId = channelId, !.query = query,
                    !.sent = TRUE,
                    !.rows = [k \in DOMAIN s |-> InventoryLog(s[k], inventoryLogs[s[k]])]]
    /\ UNCHANGED stored

\* GET /inventory-log/:id for the id of a stored row: Find by id, with no scope.
InventoryLogGet(channelId, id) ==
    /\ id \in 1..Len(inventoryLogs)
    /\ SendLogs("log", channelId, Query(id, 0, "", "", ""), <<id>>)

\* GET /inventory-log: one page of the caller's rows, newest first.
InventoryLogGetAll(channelId, pageSize) ==
    \E s \in OrderLoggedAtDesc(SelectLogs(channelId, LogIds)) :
        SendLogs("logs", channelId, NoQuery, Paginate(s, pageSize))

\* GET /inventory-log/product/:productId
InventoryLogGetByProductId(channelId, productId) ==
    \E s \in OrderLoggedAtDesc(
                SelectLogs(channelId,
                    {i \in LogIds : WhereProductId(productId, inventoryLogs[i])})) :
        SendLogs("logs-by-product", channelId, Query(0, productId, "", "", ""), s)

\* GET /inventory-log/change-type?changeType=
InventoryLogGetByChangeType(channelId, changeType) ==
    \E s \in OrderLoggedAtDesc(
                SelectLogs(channelId,
                    {i \in LogIds : WhereChangeType(changeType, inventoryLogs[i])})) :
        SendLogs("logs-by-change-type", channelId, Query(0, 0, changeType, "", ""), s)

\* GET /inventory-log/date-range?startDate=&endDate=
InventoryLogGetByDateRange(channelId, startDate, endDate) ==
    \E s \in OrderLoggedAtDesc(
                SelectLogs(channelId,
                    {i \in LogIds : WhereDateRange(startDate, endDate, inventoryLogs[i])})) :
        SendLogs("logs-by-date-range", channelId,
                 Query(0, 0, "", startDate, endDate), s)

\* ------------------------------------------------------------- the inputs
\* Well-formed request bodies; adminOverride is only read for OUT.
Requests ==
    {StockMovementRequest(p, ct, q, "sale", "n", ov) :
        p \in ProductIds,
        ct \in {InventoryLogChangeTypeIN, InventoryLogChangeTypeOUT,
                InventoryLogChangeTypeADJUST},
        q \in Quantities, ov \in BOOLEAN} \ 
    {StockMovementRequest(p, ct, q, "sale", "n", TRUE) :
        p \in ProductIds,
        ct \in {InventoryLogChangeTypeIN, InventoryLogChangeTypeADJUST},
        q \in Quantities}

\* Every shape of request body, well-formed or not.
AnyRequests ==
    {StockMovementRequest(p, ct, q, reason, "", ov) :
        p \in {0} \cup ProductIds,
        ct \in {InventoryLogChangeTypeIN, InventoryLogChangeTypeOUT,
                InventoryLogChangeTypeADJUST, "BOGUS", ""},
        q \in {-1, 0} \cup Quantities, reason \in {"", "sale"}, ov \in BOOLEAN}

Failures == {"none", "product", "inventory"}
WriteFailures == {"none", "log", "quantity"}

\* Concurrent requests, each in its own slot.
Next ==
    \/ \E r \in Slots, req \in Requests : RecordStockMovement(r, req)
    \/ \E r \in Slots, f \in WriteFailures : CompleteStockMovement(r, f)
    \/ \E t \in Thresholds, f \in Failures : SaveProduct(1, t, f)
    \/ \E id \in ProductIds, t \in Thresholds : UpdateThreshold(id, t)
    \/ \E id \in ProductIds, t \in Thresholds : UpdateProduct(id, t)
    \/ \E id \in ProductIds : DeleteProduct(id)

Spec == Init /\ [][Next]_vars

\* Concurrent requests, none of which carries adminOverride.
RequestsNoOverride == {req \in Requests : ~req.adminOverride}

NextNoOverride ==
    \/ \E r \in Slots, req \in RequestsNoOverride : RecordStockMovement(r, req)
    \/ \E r \in Slots, f \in WriteFailures : CompleteStockMovement(r, f)
    \/ \E t \in Thresholds, f \in Failures : SaveProduct(1, t, f)
    \/ \E id \in ProductIds, t \in Thresholds : UpdateProduct(id, t)
    \/ \E id \in ProductIds, t \in Thresholds : UpdateThreshold(id, t)
    \/ \E id \in ProductIds : DeleteProduct(id)

SpecNoOverride == Init /\ [][NextNoOverride]_vars

\* Products of two channels, their thresholds and the low-stock list, with
\* stock arriving one request at a time.
RequestsIn == {req \in Requests : req.changeType = InventoryLogChangeTypeIN}
Callers == {SystemAdmin} \cup Channels

NextCatalog ==
    \/ \E c \in Channels, t \in NewThresholds, f \in Failures : SaveProduct(c, t, f)
    \/ \E id \in ProductIds, c \in Channels, t \in NewThresholds : CreateAgain(id, c, t)
    \/ \E id \in ProductIds, t \in Thresholds : UpdateThreshold(id, t)
    \/ \E id \in ProductIds : DeleteProduct(id)
    \/ \E req \in RequestsIn : RecordStockMovement("a", req)
    \/ CompleteStockMovement("a", "none")
    \/ \E c \in Callers : GetLowStockItems(c)

SpecCatalog == Init /\ [][NextCatalog]_vars

\* One request at a time, with every shape of request body.
NextAny ==
    \/ \E req \in AnyRequests : RecordStockMovement("a", req)
    \/ \E f \in WriteFailures : CompleteStockMovement("a", f)
    \/ SaveProduct(1, 0, "none")

SpecAny == Init /\ [][NextAny]_vars

\* Two requests in flight at a time, never on the same product: slot "a"
\* serves product 1 and slot "b" product 2.
SlotProduct == [r \in Slots |-> IF r = "a" THEN 1 ELSE 2]

NextDistinct ==
    \/ \E r \in Slots, req \in Requests :
          req.productId = SlotProduct[r] /\ RecordStockMovement(r, req)
    \/ \E r \in Slots, f \in WriteFailures : CompleteStockMovement(r, f)
    \/ \E t \in Thresholds : SaveProduct(1, t, "none")

SpecDistinct == Init /\ [][NextDistinct]_vars

\* The write phase of a movement in its two statements, for the requests that
\* read between them.  A statement on the request's transaction stays pending
\* until the response; one on the bare connection is stored at once.
InsertInventoryLog(r, fails) ==
    /\ call[r].pc = "computed"
    /\ LET c1 == CreateInventoryLog(call[r], fails) IN
       IF c1.pc = "failed"
         THEN FormatAndSend(r, c1)
         ELSE /\ inventoryLogs' = IF c1.logged = "committed"
                                    THEN Insert(inventoryLogs, LogEntry(c1))
                                    ELSE inventoryLogs
              /\ call' = [call EXCEPT ![r] =
                            [c1 EXCEPT !.pc = "logged",
                                       !.logged = IF c1.logged = "committed"
                                                    THEN "stored" ELSE c1.logged]]
              /\ UNCHANGED <<products, productSeq, inventories, qtyWrites,
                             accepted, resp>>
              /\ listed' = NoListing
    /\ UNCHANGED moves

UpdateInventoryQuantity(r, fails) ==
    /\ call[r].pc = "logged"
    /\ FormatAndSend(r, UpdateQuantity(call[r], fails))
    /\ UNCHANGED moves

\* Products and requests of two channels, one movement at a time, and the
\* reads of a snapshot and of a product's ledger rows, which may come at any
\* moment of a movement.
RequestsOne ==
    {req \in Requests : req.quantity = 1 /\ ~req.adminOverride
                          /\ req.changeType # InventoryLogChangeTypeADJUST}

NextReaders ==
    \/ \E c \in Channels : SaveProduct(c, 0, "none")
    \/ \E c \in Channels, req \in RequestsOne : RecordStockMovementBy(c, 0, "a", req)
    \/ \E f \in BOOLEAN : InsertInventoryLog("a", f)
    \/ \E f \in BOOLEAN : UpdateInventoryQuantity("a", f)
    \/ \E id \in ProductIds, t \in NewThresholds : UpdateThreshold(id, t)
    \/ \E c \in Callers, p \in ProductIds : InventoryGetByProductId(c, p)
    \/ \E c \in Callers, id \in 1..MaxMoves : InventoryLogGet(c, id)
    \/ \E c \in Callers, p \in ProductIds : InventoryLogGetByProductId(c, p)

SpecReaders == Init /\ [][NextReaders]_vars

\* The ledger of one channel's products, written by requests of two channels
\* at three clock readings, and its lists.
Times == {0, 1, 2}
Dates == {"", "2024-01-01", "2024-01-02"}
PageSizes == {2}
Readers == {1}

NextLedger ==
    \/ SaveProduct(1, 0, "none")
    \/ \E c \in Channels, t \in GetLocalTime(Times), req \in RequestsOne :
          RecordStockMovementBy(c, t, "a", req)
    \/ CompleteStockMovement("a", "none")
    \/ \E c \in Readers, n \in PageSizes : InventoryLogGetAll(c, n)
    \/ \E c \in Readers, p \in ProductIds : InventoryLogGetByProductId(c, p)
    \/ \E c \in Readers, ct \in {InventoryLogChangeTypeIN, InventoryLogChangeTypeOUT} :
          InventoryLogGetByChangeType(c, ct)
    \/ \E c \in Readers, d1 \in Dates, d2 \in Dates :
          InventoryLogGetByDateRange(c, d1, d2)

SpecLedger == Init /\ [][NextLedger]_vars


\* ------------------------------------------------------------ properties
RECURSIVE SumNetChange(_, _)
SumNetChange(logs, p) ==
    IF logs = <<>> THEN 0
    ELSE (IF Head(logs).productId = p THEN CalculateNetChange(Head(logs)) ELSE 0)
         + SumNetChange(Tail(logs), p)

LedgerCount(logs, p) == Cardinality({i \in 1..Len(logs) : logs[i].productId = p})

\* A request arrives in this step / slot r takes it on / slot r is answered.
Arrives == moves' = moves + 1
TakenOn(r) == call[r].pc = "idle" /\ call'[r].pc = "computed"
Answered(r) == call[r].pc = "computed" /\ call'[r].pc = "idle"

\* C1: for every product with a snapshot, the snapshot quantity equals 0 plus
\* the signed sum of the net changes of the product's ledger rows.
C1_QuantityIsLedgerSum ==
    \A p \in ProductIds :
        inventories[p].exists =>
            inventories[p].quantity = SumNetChange(inventoryLogs, p)

\* C2: a movement that succeeds adds its signed change to the quantity the
\* snapshot holds when the movement is committed, so two concurrent movements
\* on one product leave initial + change1 + change2.
C2_NoLostUpdate ==
    [][\A r \in Slots :
          (Answered(r) /\ resp'.err = NoError) =>
              inventories'[call[r].req.productId].quantity =
                  inventories[call[r].req.productId].quantity + call[r].netChange]_vars

\* C3: a movement whose ledger insert or quantity update fails answers with an
\* error and leaves ledger and snapshots as they were; at all times every
\* product has as many ledger rows as committed quantity updates.
C3_WritesAreAtomic ==
    [][/\ \A r \in Slots :
             (Answered(r) /\ resp'.err.code = DATABASE) =>
                 /\ inventoryLogs' = inventoryLogs
                 /\ inventories' = inventories
       /\ \A p \in ProductIds : LedgerCount(inventoryLogs', p) = qtyWrites'[p]]_vars

\* C3 witness: a quantity update failed after the ledger insert had succeeded.
C3_UpdateFailedAfterInsert ==
    /\ resp.err = XError(DATABASE, "Failed to update inventory quantity")
    /\ inventories[resp.req.productId].quantity = resp.previousStock


\* An OUT without override that asks for more than the snapshot holds now.
Overdraw(req) ==
    /\ req.productId \in ProductIds
    /\ inventories[req.productId].exists
    /\ req.changeType = InventoryLogChangeTypeOUT
    /\ ~req.adminOverride
    /\ req.quantity > inventories[req.productId].quantity

\* C4: an OUT movement without override whose magnitude exceeds the snapshot
\* quantity is never taken on: it is answered with INVALID_REQUEST and leaves
\* every snapshot and the ledger as they were.
C4_OverdrawRejected ==
    [][Arrives =>
          /\ \A r \in Slots : TakenOn(r) => ~Overdraw(call'[r].req)
          /\ ((\A r \in Slots : ~TakenOn(r)) /\ Overdraw(resp'.req)) =>
                /\ resp'.err.code = INVALID_REQUEST
                /\ inventories' = inventories
                /\ inventoryLogs' = inventoryLogs]_vars

\* C4 witness: stock was 1, an OUT of 2 without override was rejected, stock is 1.
C4_OverdrawSeen ==
    /\ resp.err = InsufficientStock(1, 2)
    /\ ~resp.req.adminOverride
    /\ inventories[resp.req.productId].quantity = 1

\* C5: a snapshot's quantity changes only in the step that commits a successful
\* movement on its product, and that step appends a ledger row for the product.
C5_QuantityOnlyByMovement ==
    [][\A p \in ProductIds :
          (inventories[p].exists /\ inventories'[p].quantity # inventories[p].quantity) =>
              /\ \E r \in Slots : /\ Answered(r)
                                  /\ call[r].req.productId = p
                                  /\ resp'.err = NoError
              /\ Len(inventoryLogs') = Len(inventoryLogs) + 1
              /\ inventoryLogs'[Len(inventoryLogs')].productId = p]_vars

\* C5 witness: a product with stock 2 from one movement had its threshold set
\* and was deleted, and still holds 2.
C5_OtherOperationsSeen ==
    \E p \in ProductIds :
        /\ products[p] = "deleted"
        /\ inventories[p].quantity = 2
        /\ inventories[p].lowStockThreshold = 0
        /\ LedgerCount(inventoryLogs, p) = 1

\* C6: every ledger row, once stored, stays where it is with the same content.
C6_LedgerAppendOnly ==
    [][/\ Len(inventoryLogs') >= Len(inventoryLogs)
       /\ SubSeq(inventoryLogs', 1, Len(inventoryLogs)) = inventoryLogs]_vars

\* C6 witness: a second row was appended after a first one.
C6_TwoRows ==
    /\ Len(inventoryLogs) = 2
    /\ inventoryLogs[1].changeType = InventoryLogChangeTypeIN
    /\ inventoryLogs[2].changeType = InventoryLogChangeTypeOUT

\* C7: a movement answered with success appends exactly one ledger row holding
\* the request's product, change type, magnitude, reason and notes; a rejected
\* one appends none; a product's rows number its accepted movements.
C7_OneRowPerAcceptedMovement ==
    [][/\ \A p \in ProductIds : LedgerCount(inventoryLogs', p) = accepted'[p]
       /\ \A r \in Slots :
            Answered(r) =>
                inventoryLogs' =
                    IF resp'.err = NoError
                      THEN Append(inventoryLogs,
                             [productId |-> call[r].req.productId,
                              changeType |-> call[r].req.changeType,
                              quantity |-> call[r].req.quantity,
                              reason |-> call[r].req.reason,
                              notes |-> call[r].req.notes,
                              loggedAt |-> call[r].loggedAt,
                              channelId |-> call[r].channelId,
                              isActive |-> TRUE])
                      ELSE inventoryLogs
       /\ (Arrives /\ \A r \in Slots : ~TakenOn(r)) =>
            inventoryLogs' = inventoryLogs]_vars

\* C7 witness: one movement accepted and one rejected, one row in the ledger.
C7_AcceptedAndRejected ==
    /\ moves = 2
    /\ \A r \in Slots : call[r].pc = "idle"
    /\ resp.err # NoError
    /\ accepted[1] = 1
    /\ LedgerCount(inventoryLogs, 1) = 1

\* C8: an IN or OUT movement of magnitude m is computed from the quantity q the
\* snapshot holds when it is read; on success it answers previousStock = q,
\* changeAmount = +m (IN) or -m (OUT), newStock = q + changeAmount, and the
\* snapshot holds newStock when the call has returned.
C8_InOutResult ==
    [][\A r \in Slots :
          /\ TakenOn(r) =>
                call'[r].previousStock = inventories[call'[r].req.productId].quantity
          /\ (/\ Answered(r)
              /\ resp'.err = NoError
              /\ call[r].req.changeType \in
                    {InventoryLogChangeTypeIN, InventoryLogChangeTypeOUT}) =>
                /\ resp'.previousStock = call[r].previousStock
                /\ resp'.changeAmount =
                      IF call[r].req.changeType = InventoryLogChangeTypeIN
                        THEN call[r].req.quantity ELSE -call[r].req.quantity
                /\ resp'.newStock = resp'.previousStock + resp'.changeAmount
                /\ inventories'[call[r].req.productId].quantity = resp'.newStock]_vars

\* C8 witness: an OUT of 1 on a stock of 2 answered 2, -1, 1.
C8_OutSeen ==
    /\ resp.err = NoError
    /\ resp.req.changeType = InventoryLogChangeTypeOUT
    /\ resp.previousStock = 2
    /\ resp.changeAmount = -1
    /\ resp.newStock = 1
    /\ inventories[resp.req.productId].quantity = 1

\* An ADJUST with a negative submitted quantity, otherwise well-formed, for a
\* product that has a snapshot.
NegativeAdjust(req) ==
    /\ req.changeType = InventoryLogChangeTypeADJUST
    /\ req.quantity < 0
    /\ req.reason # ""
    /\ req.productId \in ProductIds
    /\ inventories[req.productId].exists

\* C9: an ADJUST is taken on with its submitted quantity as the signed change:
\* a negative value is not rejected and lowers the stock by its absolute value,
\* a positive value raises it.
C9_AdjustIsSigned ==
    [][Arrives =>
          /\ (\A r \in Slots : ~TakenOn(r)) => ~NegativeAdjust(resp'.req)
          /\ \A r \in Slots :
                (TakenOn(r) /\ call'[r].req.changeType = InventoryLogChangeTypeADJUST) =>
                    call'[r].netChange = call'[r].req.quantity]_vars

\* The precondition that fails first, in the order magnitude, change type,
\* reason, snapshot.
C10_OriginalFirstFailing(req) ==
    IF req.quantity <= 0 THEN "quantity"
    ELSE IF req.changeType \notin {"IN", "OUT", "ADJUST"} THEN "changeType"
    ELSE IF req.reason = "" THEN "reason"
    ELSE IF req.productId \notin ProductIds \/ ~inventories[req.productId].exists
      THEN "snapshot"
    ELSE "none"

\* Whether an error reports the named precondition.  A malformed-request error
\* counts for any required field that is missing from the body.
C10_Reports(err, kind, req) ==
    CASE kind = "quantity" ->
            \/ err.msg = "Quantity must be greater than 0"
            \/ (err.msg = "MALFORMED_REQUEST" /\ req.quantity = 0)
      [] kind = "changeType" ->
            \/ err.msg = "Invalid change type"
            \/ (err.msg = "MALFORMED_REQUEST" /\ req.changeType = "")
      [] kind = "reason" -> err.msg = "MALFORMED_REQUEST"
      [] kind = "snapshot" ->
            \/ err.msg = "Product inventory not found"
            \/ (err.msg = "MALFORMED_REQUEST" /\ req.productId = 0)
      [] OTHER -> TRUE

\* C10 as stated: the error is that of the first failing precondition in the
\* order magnitude, change type, reason, snapshot.
C10_OriginalOrder ==
    [][Arrives =>
          /\ \A r \in Slots :
                TakenOn(r) => C10_OriginalFirstFailing(call'[r].req) = "none"
          /\ (\A r \in Slots : ~TakenOn(r)) =>
                C10_Reports(resp'.err, C10_OriginalFirstFailing(resp'.req), resp'.req)]_vars

\* The message of the check that fails first in the order: required fields of
\* the body, magnitude, change type, snapshot.
C10_FirstFailing(req) ==
    IF req.productId = 0 \/ req.changeType = "" \/ req.quantity = 0 \/ req.reason = ""
      THEN "MALFORMED_REQUEST"
    ELSE IF req.quantity <= 0 THEN "Quantity must be greater than 0"
    ELSE IF req.changeType \notin {"IN", "OUT", "ADJUST"} THEN "Invalid change type"
    ELSE IF req.productId \notin ProductIds \/ ~inventories[req.productId].exists
      THEN "Product inventory not found"
    ELSE ""

\* C10 amended: the body's required fields (reason among them) are checked
\* first, then magnitude > 0, then the change type, then the snapshot; the
\* error is INVALID_REQUEST with the message of the first failing check.
C10_BindThenServiceOrder ==
    [][Arrives =>
          /\ \A r \in Slots : TakenOn(r) => C10_FirstFailing(call'[r].req) = ""
          /\ (\A r \in Slots : ~TakenOn(r)) =>
                /\ resp'.err.code = INVALID_REQUEST
                /\ resp'.err.msg = IF C10_FirstFailing(resp'.req) = ""
                                     THEN "Insufficient stock"
                                     ELSE C10_FirstFailing(resp'.req)]_vars

\* C10 witness: an invalid change type for a product without a snapshot was
\* answered with the change-type error.
C10_TypeBeforeSnapshot ==
    /\ resp.err.msg = "Invalid change type"
    /\ resp.req.productId \in ProductIds
    /\ ~inventories[resp.req.productId].exists

\* A request whose magnitude or change type is invalid.
InvalidInput(req) ==
    \/ req.quantity <= 0
    \/ req.changeType \notin {InventoryLogChangeTypeIN, InventoryLogChangeTypeOUT,
                              InventoryLogChangeTypeADJUST}

\* C11: a request with magnitude <= 0 or a change type outside IN, OUT, ADJUST
\* is answered with INVALID_REQUEST before any repository call is made: no
\* transaction was opened for it, and products, snapshots and ledger stay as
\* they were.
C11_InvalidInputBeforeStorage ==
    [][Arrives =>
          /\ \A r \in Slots : TakenOn(r) => ~InvalidInput(call'[r].req)
          /\ ((\A r \in Slots : ~TakenOn(r)) /\ InvalidInput(resp'.req)) =>
                /\ resp'.err.code = INVALID_REQUEST
                /\ ~resp'.txn
                /\ db' = db]_vars

\* C11 witness: an unknown change type for a product that has a snapshot was
\* rejected without a repository call.
C11_BogusTypeSeen ==
    /\ resp.err.msg = "Invalid change type"
    /\ resp.req.changeType = "BOGUS"
    /\ ~resp.txn
    /\ resp.req.productId \in ProductIds
    /\ inventories[resp.req.productId].exists

\* C12: a request with an empty reason is answered with INVALID_REQUEST and
\* leaves products, snapshots and ledger as they were; every ledger row has a
\* non-empty reason.
C12_EmptyReasonRejected ==
    [][/\ Arrives =>
            /\ \A r \in Slots : TakenOn(r) => call'[r].req.reason # ""
            /\ ((\A r \in Slots : ~TakenOn(r)) /\ resp'.req.reason = "") =>
                  /\ resp'.err.code = INVALID_REQUEST
                  /\ db' = db
       /\ \A i \in 1..Len(inventoryLogs') : inventoryLogs'[i].reason # ""]_vars

\* C12 witness: with one row in the ledger, an otherwise valid request without
\* a reason for a product that has a snapshot was rejected.
C12_EmptyReasonSeen ==
    /\ resp.req.reason = ""
    /\ resp.req.quantity > 0
    /\ resp.req.changeType = InventoryLogChangeTypeIN
    /\ resp.req.productId \in ProductIds
    /\ inventories[resp.req.productId].exists
    /\ resp.err.code = INVALID_REQUEST
    /\ Len(inventoryLogs) = 1


\* A request that passes the input checks and names a product without snapshot.
NoSnapshot(req) ==
    /\ req.productId # 0
    /\ req.reason # ""
    /\ ~InvalidInput(req)
    /\ (req.productId \in ProductIds => ~inventories[req.productId].exists)

OverrideOut(req) ==
    /\ req.changeType = InventoryLogChangeTypeOUT
    /\ req.adminOverride
    /\ req.quantity > 0
    /\ req.reason # ""
    /\ req.productId \in ProductIds
    /\ inventories[req.productId].exists

\* C14: an OUT with adminOverride, valid inputs and an existing snapshot is
\* never rejected, whatever the quantity: it is taken on with change -m and
\* new stock q - m, q being the quantity read; unless a write fails in the
\* store it is answered with success, changeAmount -m, and the snapshot then
\* holds q - m, negative or not.
C14_OverrideOutSucceeds ==
    [][/\ (Arrives /\ \A r \in Slots : ~TakenOn(r)) => ~OverrideOut(resp'.req)
       /\ \A r \in Slots :
            /\ (TakenOn(r) /\ OverrideOut(call'[r].req)) =>
                  /\ call'[r].netChange = -call'[r].req.quantity
                  /\ call'[r].newStock =
                        inventories[call'[r].req.productId].quantity
                            - call'[r].req.quantity
            /\ (Answered(r) /\ call[r].req.changeType = InventoryLogChangeTypeOUT
                            /\ call[r].req.adminOverride) =>
                  \/ resp'.err.code = DATABASE
                  \/ /\ resp'.err = NoError
                     /\ resp'.changeAmount = -call[r].req.quantity
                     /\ resp'.newStock = call[r].previousStock - call[r].req.quantity
                     /\ inventories'[call[r].req.productId].quantity = resp'.newStock]_vars

\* C14 witness: an OUT of 2 with override on a stock of 1 succeeded and left -1.
C14_NegativeStockSeen ==
    /\ resp.err = NoError
    /\ resp.req.changeType = InventoryLogChangeTypeOUT
    /\ resp.req.adminOverride
    /\ resp.previousStock = 1
    /\ resp.changeAmount = -2
    /\ resp.newStock = -1
    /\ inventories[resp.req.productId].quantity = -1

\* C15: when no movement carries adminOverride, every snapshot's quantity is
\* at least 0 in every reachable state, concurrent movements included.
C15_NonNegativeWithoutOverride ==
    \A p \in ProductIds : inventories[p].quantity >= 0

\* C15 witness: two movements without override ran concurrently on one product
\* (both were accepted, and the ledger and the snapshot no longer agree).
C15_ConcurrentSeen ==
    \E p \in ProductIds :
        /\ accepted[p] = 2
        /\ ~resp.req.adminOverride
        /\ SumNetChange(inventoryLogs, p) # inventories[p].quantity
        /\ inventories[p].quantity > 0

\* C16: a negative threshold is refused and the stored threshold stays as it
\* was: no step takes an existing snapshot's threshold to a negative value, so
\* every snapshot's threshold is at least 0.
C16_NegativeThresholdRejected ==
    [][\A p \in ProductIds :
          (inventories[p].exists /\ inventories[p].lowStockThreshold >= 0) =>
              inventories'[p].lowStockThreshold >= 0]_vars

\* C17: an UpdateThreshold on an existing snapshot sets that snapshot's
\* threshold to the requested value and leaves its quantity, every other
\* snapshot, the products and the ledger as they were.
C17_ThresholdUpdateFrame ==
    [][\A id \in ProductIds, t \in Thresholds :
          (UpdateThreshold(id, t) /\ inventories[id].exists) =>
              /\ inventories'[id] = [inventories[id] EXCEPT !.lowStockThreshold = t]
              /\ \A p \in ProductIds \ {id} : inventories'[p] = inventories[p]
              /\ inventoryLogs' = inventoryLogs
              /\ products' = products]_vars

\* C17 witness: a snapshot with stock has the threshold -1, which only an
\* update sets, while the other snapshot still has the threshold 1 it was
\* created with.
C17_ThresholdUpdated ==
    \E p, q \in ProductIds :
        /\ inventories[p].quantity > 0
        /\ inventories[p].lowStockThreshold = -1
        /\ inventories[q].exists
        /\ inventories[q].lowStockThreshold = 1
        /\ Len(inventoryLogs) > 0

\* C18: creating a product creates its snapshot in the same step, with
\* quantity 0 and the request's threshold (0 when the body has none), and
\* adds no ledger row.
C18_SnapshotWithProduct ==
    [][\A c \in Channels, t \in NewThresholds :
          SaveProduct(c, t, "none") =>
              /\ products[productSeq'] = "none"
              /\ products'[productSeq'] = "active"
              /\ ~inventories[productSeq'].exists
              /\ inventories'[productSeq'].exists
              /\ inventories'[productSeq'].quantity = 0
              /\ inventories'[productSeq'].lowStockThreshold = t
              /\ inventoryLogs' = inventoryLogs]_vars

\* C18 witness: a product was created with the threshold 1 and has a snapshot
\* with quantity 0 and that threshold, and the ledger is empty.
C18_CreatedWithThreshold ==
    \E p \in ProductIds :
        /\ products[p] = "active"
        /\ inventories[p].exists
        /\ inventories[p].quantity = 0
        /\ inventories[p].lowStockThreshold = 1
        /\ inventoryLogs = <<>>

\* The step is the answer to a snapshot creation for a product that has one.
RefusedCreate ==
    /\ resp' # resp
    /\ call' = call
    /\ moves' = moves

\* C19 as stated: every product that exists has its one snapshot (the product
\* reference is unique, so never two), also after a product creation whose
\* snapshot insert failed; creating a snapshot for a product that has one
\* fails with CONFLICT and changes nothing.
C19_OriginalConflictKind ==
    [][/\ \A p \in ProductIds : products'[p] # "none" => inventories'[p].exists
       /\ RefusedCreate =>
                /\ resp'.err.code = "CONFLICT"
                /\ db' = db]_vars

\* C19 amended: the same, the refused creation being reported as a DATABASE
\* error ("Unable to create inventory").
C19_OneSnapshotPerProduct ==
    [][/\ \A p \in ProductIds : products'[p] # "none" => inventories'[p].exists
       /\ RefusedCreate =>
                /\ resp'.err = XError(DATABASE, "Unable to create inventory")
                /\ db' = db]_vars

\* C19 witness: the first product creation failed and left neither product nor
\* snapshot, the second succeeded, and a second snapshot for its product was
\* refused after stock had arrived.
C19_RefusedSeen ==
    /\ productSeq = 2
    /\ products[1] = "none" /\ ~inventories[1].exists
    /\ products[2] = "active" /\ inventories[2].exists
    /\ inventories[2].quantity > 0
    /\ resp.err = XError(DATABASE, "Unable to create inventory")
    /\ resp.req.productId = 2

\* C20: the low-stock list sent to a caller of a channel holds exactly the
\* active snapshots of that channel whose quantity is at most their threshold,
\* each with its current stock and threshold: a snapshot at or below its
\* threshold is listed, one that an IN has raised above it is not.
C20_LowStockList ==
    [][\A c \in Channels :
          (listed'.sent /\ listed'.kind = "low-stock" /\ listed'.channelId = c) =>
              /\ {i.productId : i \in listed'.items} =
                    {p \in ProductIds : /\ inventories[p].exists
                                        /\ inventories[p].isActive
                                        /\ inventories[p].channelId = c
                                        /\ inventories[p].quantity
                                              <= inventories[p].lowStockThreshold}
              /\ \A i \in listed'.items :
                    /\ i.currentStock = inventories[i.productId].quantity
                    /\ i.lowStockThreshold = inventories[i.productId].lowStockThreshold]_vars

\* C20 witness: both products are of channel 1; product 1 got an IN that took
\* it above its threshold, product 2 sits at its threshold, and channel 1's
\* list holds product 2 only.
C20_RaisedAboveThreshold ==
    /\ listed.sent /\ listed.kind = "low-stock" /\ listed.channelId = 1
    /\ {i.productId : i \in listed.items} = {2}
    /\ inventories[1].channelId = 1 /\ inventories[2].channelId = 1
    /\ inventories[1].quantity = 2 /\ inventories[1].lowStockThreshold = 1
    /\ inventories[2].quantity = 1 /\ inventories[2].lowStockThreshold = 1

\* The ledger rows of product p, in the order they were committed.
RECURSIVE LedgerOf(_, _)
LedgerOf(logs, p) ==
    IF logs = <<>> THEN <<>>
    ELSE IF Head(logs).productId = p
      THEN <<Head(logs)>> \o LedgerOf(Tail(logs), p)
      ELSE LedgerOf(Tail(logs), p)

\* C21: with the requests in flight all on different products, every movement
\* behaves as in a serial run: it is answered from the quantity its product's
\* snapshot holds at that moment, a successful one leaves that quantity plus
\* its signed change and one more ledger row for its product, and it leaves
\* every other product's snapshot and ledger rows as they were; so each
\* product's quantity stays the sum of its own ledger rows.
C21_DistinctProductsIndependent ==
    [][/\ \A r \in Slots :
            Answered(r) =>
                LET p == call[r].req.productId IN
                /\ resp'.previousStock = inventories[p].quantity
                /\ \A q \in ProductIds \ {p} :
                      /\ inventories'[q] = inventories[q]
                      /\ LedgerOf(inventoryLogs', q) = LedgerOf(inventoryLogs, q)
                /\ IF resp'.err = NoError
                     THEN /\ resp'.newStock = inventories[p].quantity + call[r].netChange
                          /\ inventories'[p].quantity = resp'.newStock
                          /\ LedgerOf(inventoryLogs', p) =
                                Append(LedgerOf(inventoryLogs, p), LogEntry(call[r]))
                     ELSE /\ inventories'[p] = inventories[p]
                          /\ LedgerOf(inventoryLogs', p) = LedgerOf(inventoryLogs, p)
       /\ \A p \in ProductIds :
            inventories'[p].exists =>
                inventories'[p].quantity = SumNetChange(inventoryLogs', p)]_vars

\* C21 witness: an OUT with override on product 1 and an IN on product 2 have
\* both read their snapshots and neither has written yet.
C21_BothInFlight ==
    /\ call["a"].pc = "computed"
    /\ call["b"].pc = "computed"
    /\ call["a"].req.productId = 1
    /\ call["a"].netChange = -2
    /\ call["b"].req.productId = 2
    /\ call["b"].netChange = 1

\* C22: a caller of one channel neither reads (snapshot by product, ledger row
\* by id, ledger rows by product) nor changes (by a stock movement or a
\* threshold update) a snapshot or ledger row of another channel, and is shown
\* no inactive row.
C22_TenantScoped ==
    [][/\ (listed'.sent /\ listed'.channelId \in Channels) =>
            /\ \A i \in listed'.items :
                  /\ inventories[i.productId].channelId = listed'.channelId
                  /\ i.isActive
            /\ \A k \in DOMAIN listed'.rows :
                  /\ inventoryLogs[listed'.rows[k].id].channelId = listed'.channelId
                  /\ listed'.rows[k].isActive
       /\ \A r \in Slots :
            TakenOn(r) =>
                inventories[call'[r].req.productId].channelId = call'[r].channelId
       /\ \A c \in Channels, id \in ProductIds, t \in NewThresholds :
            (/\ UpdateThreshold(id, t)
             /\ inventories[id].exists
             /\ inventories[id].channelId # c) => inventories' = inventories]_vars

\* C23: a read of a product's snapshot returns the quantity and the threshold
\* the snapshot holds and changes no snapshot and no ledger row; a second read
\* of the same product right after it returns the same.
C23_GetByProductIdempotent ==
    [][(listed'.sent /\ listed'.kind = "inventory-by-product") =>
          LET p == listed'.query.productId IN
          /\ stored' = stored
          /\ inventories[p].exists => listed'.items # {}
          /\ \A i \in listed'.items :
                /\ inventories[p].exists
                /\ i.quantity = inventories[p].quantity
                /\ i.lowStockThreshold = inventories[p].lowStockThreshold
          /\ (/\ listed.kind = "inventory-by-product"
              /\ listed.query = listed'.query) => listed'.items = listed.items]_vars

\* C23 witness: a snapshot with quantity 1 and threshold 1 was read.
C23_SnapshotRead ==
    /\ listed.sent /\ listed.kind = "inventory-by-product"
    /\ \E i \in listed.items : i.quantity = 1 /\ i.lowStockThreshold = 1

\* What a reader finds for product p in the stored rows: half of a movement,
\* that is, a ledger row whose change the quantity does not hold, or a quantity
\* change without its ledger row.
HalfApplied(p) ==
    \/ LedgerCount(inventoryLogs, p) # qtyWrites[p]
    \/ inventories[p].exists /\ inventories[p].quantity # SumNetChange(inventoryLogs, p)

\* C24: at no moment of a movement, between its two writes included, do the
\* stored rows show half of it, and what a read sends is taken from those rows:
\* a product's ledger list sent to the system admin has one row per committed
\* quantity update, and their net changes add up to the snapshot's quantity.
C24_NoHalfAppliedMovement ==
    [][/\ \A p \in ProductIds : ~HalfApplied(p)'
       /\ (/\ listed'.sent /\ listed'.kind = "logs-by-product"
           /\ listed'.channelId = SystemAdmin) =>
             LET p == listed'.query.productId
                 shown == listed'.rows IN
             /\ Len(shown) = qtyWrites[p]
             /\ inventories[p].exists =>
                   inventories[p].quantity =
                       SumNetChange([k \in DOMAIN shown |-> inventoryLogs[shown[k].id]], p)
       /\ (listed'.sent /\ listed'.kind = "inventory-by-product") =>
             \A i \in listed'.items :
                 i.quantity = SumNetChange(inventoryLogs, i.productId)]_vars

\* C24 witness: a product's ledger was read between the insert and the update
\* of its second movement, and one row was shown.
C24_ReadBetweenWrites ==
    /\ call["a"].pc = "logged"
    /\ listed.sent /\ listed.kind = "logs-by-product"
    /\ listed.channelId = SystemAdmin
    /\ listed.query.productId = call["a"].req.productId
    /\ Len(listed.rows) = 1

C26_OriginalUpdateProductFrame ==
    [][\A id \in ProductIds, t \in Thresholds :
          UpdateProduct(id, t) => inventories' = inventories]_vars

\* C26: a snapshot's quantity changes only in the step that commits a
\* successful movement on its product; its threshold changes only in a
\* threshold update or in UpdateProduct, which sets it to the request body's
\* lowStockThreshold and leaves the quantity; nothing else of a snapshot changes.
C26_SnapshotChangedOnlyBy ==
    [][\A p \in ProductIds :
          inventories[p].exists =>
              /\ inventories'[p].quantity # inventories[p].quantity =>
                    /\ \E r \in Slots : /\ Answered(r)
                                        /\ call[r].req.productId = p
                                        /\ resp'.err = NoError
                    /\ inventories'[p].lowStockThreshold = inventories[p].lowStockThreshold
              /\ inventories'[p].lowStockThreshold # inventories[p].lowStockThreshold =>
                    /\ \E t \in Thresholds : UpdateThreshold(p, t) \/ UpdateProduct(p, t)
                    /\ inventories'[p].quantity = inventories[p].quantity
              /\ \A t \in Thresholds :
                    UpdateProduct(p, t) =>
                        inventories' = [inventories EXCEPT ![p].lowStockThreshold = t]
              /\ inventories'[p].exists
              /\ inventories'[p].channelId = inventories[p].channelId
              /\ inventories'[p].isActive = inventories[p].isActive]_vars

\* C26 witness: a snapshot holding 2 from a movement has had its threshold set
\* to -1 and still holds 2.
C26_ThresholdSetQuantityKept ==
    \E p \in ProductIds :
        /\ inventories[p].exists
        /\ inventories[p].quantity = 2
        /\ inventories[p].lowStockThreshold = -1
        /\ products[p] = "active"

\* C27: a movement rejected for insufficient stock answers INVALID_REQUEST with
\* the quantity read from the snapshot as "Available" and the request's
\* magnitude as "Requested", writes nothing, and the snapshot holds the
\* reported available quantity when the rejection has been sent.
C27_InsufficientStockReport ==
    [][(/\ Arrives
        /\ \A r \in Slots : ~TakenOn(r)
        /\ resp'.err.msg = "Insufficient stock") =>
          LET p == resp'.req.productId IN
          /\ resp'.err.code = INVALID_REQUEST
          /\ resp'.err.available = inventories[p].quantity
          /\ resp'.err.requested = resp'.req.quantity
          /\ resp'.err.available < resp'.err.requested
          /\ inventories' = inventories
          /\ inventoryLogs' = inventoryLogs
          /\ inventories'[p].quantity = resp'.err.available]_vars

\* C27 witness: an OUT of 2 was rejected with nothing available while another
\* movement on the same product was in flight.
C27_RejectedWhileInFlight ==
    /\ resp.err = InsufficientStock(0, 2)
    /\ inventories[resp.req.productId].quantity = 0
    /\ \E r \in Slots : /\ call[r].pc = "computed"
                        /\ call[r].req.productId = resp.req.productId

\* The ids of the ledger rows a reader of the given channel may be shown.
Visible(channelId) ==
    {i \in 1..Len(inventoryLogs) :
        /\ channelId # SystemAdmin => inventoryLogs[i].channelId = channelId
        /\ inventoryLogs[i].isActive}

\* The ids of the rows of a list.
RowIdSet(rows) == {rows[k].id : k \in DOMAIN rows}

\* A list of ledger rows was sent in this step.
LogsSent ==
    /\ listed'.sent
    /\ listed'.kind \in {"logs", "logs-by-product", "logs-by-change-type",
                         "logs-by-date-range"}

\* C28: every ledger list (all, by product, by change type, by date range)
\* shows each row once, as it is stored, with logged-at never increasing from
\* one row to the next; the list by product holds exactly the reader's rows of
\* that product and the list by change type exactly the reader's rows of that
\* type.
C28_LedgerListsOrdered ==
    [][LogsSent =>
          LET rows == listed'.rows
              q == listed'.query
              mine == Visible(listed'.channelId) IN
          /\ \A k \in DOMAIN rows :
                /\ rows[k].id \in mine
                /\ rows[k].loggedAt = inventoryLogs[rows[k].id].loggedAt
                /\ rows[k].productId = inventoryLogs[rows[k].id].productId
                /\ rows[k].changeType = inventoryLogs[rows[k].id].changeType
          /\ \A j, k \in DOMAIN rows :
                /\ j < k => rows[j].loggedAt >= rows[k].loggedAt
                /\ j # k => rows[j].id # rows[k].id
          /\ listed'.kind = "logs-by-product" =>
                RowIdSet(rows) =
                    {i \in mine : inventoryLogs[i].productId = q.productId}
          /\ listed'.kind = "logs-by-change-type" =>
                RowIdSet(rows) =
                    {i \in mine : inventoryLogs[i].changeType = q.changeType}]_vars

\* C28 witness: the list of product 1 shows both of its rows, an OUT logged
\* later first and the IN before it second.
C28_NewestFirst ==
    /\ listed.sent /\ listed.kind = "logs-by-product"
    /\ listed.query.productId = 1
    /\ Len(listed.rows) = 2
    /\ listed.rows[1].id = 2
    /\ listed.rows[1].loggedAt > listed.rows[2].loggedAt
    /\ listed.rows[1].changeType = InventoryLogChangeTypeOUT
C30_NetChangeIsChangeAmount ==
    [][\A r \in Slots :
          (Answered(r) /\ resp'.err = NoError) =>
              LET id == Len(inventoryLogs')
                  shown == InventoryLog(id, inventoryLogs'[id]) IN
              /\ id = Len(inventoryLogs) + 1
              /\ shown.productId = resp'.req.productId
              /\ shown.changeType = resp'.req.changeType
              /\ shown.netChange = resp'.changeAmount
              /\ resp'.newStock = resp'.previousStock + shown.netChange]_vars

\* C30 witness: an ADJUST of 2 was answered with changeAmount 2 after an OUT
\* with override had been stored with netChange -1.
C30_AdjustAfterOut ==
    /\ resp.err = NoError
    /\ resp.req.changeType = InventoryLogChangeTypeADJUST
    /\ resp.changeAmount = 2
    /\ Len(inventoryLogs) = 2
    /\ InventoryLog(1, inventoryLogs[1]).netChange = -1
    /\ InventoryLog(2, inventoryLogs[2]).netChange = 2

====
